---------------------------- MODULE Spec2Model ----------------------------
(* Model of the audio engine of src/src/util/AudioManager.ts together with *)
(* the platform it runs on (Web Audio context, buffer source nodes, the    *)
(* single-threaded event loop) and the callers in AudioProvider.tsx and    *)
(* ControlButtons.tsx.                                                     *)
(*                                                                         *)
(* The AudioManager object is the record `am`, one field per field of the  *)
(* class.  Every method is an operator from an engine record to the engine *)
(* record it leaves behind (plus whether it threw), so that a method that  *)
(* calls another method is the composition of the two operators.  One TLA+ *)
(* step is one task of the event loop: an API call up to its first real    *)
(* suspension, or the arrival of a fetch/decode result, a context state    *)
(* change or an `ended` event together with every continuation that runs   *)
(* in the same microtask checkpoint.                                       *)
(*                                                                         *)
(* The ring mapper of util/RingPlanet.ts, which turns the spectrum the     *)
(* engine reports into the intensity of each ring segment, is modelled by  *)
(* the record `ring` and the operators of its own section.                 *)
EXTENDS Integers, Sequences, FiniteSets, TLC

(***************************************************************************)
(* Bounds of the model                                                     *)
(***************************************************************************)
MaxTracks == 2
MaxTime == 3
MaxOps == 2
MaxListeners == 2
MaxDeliveries == 1
MaxChain == 3
VolumeScale == 10
BinCount == 2
MaxSegments == 5
MaxSamples == 2
MaxChannelSamples == 1
MaxPhase == 1
GradientSteps == 6

\* the tracks a playlist is drawn from, cf. the static playlist of AudioProvider
Library == <<"a", "b", "c">>
Playlists == { SubSeq(Library, 1, k) : k \in 0..(IF MaxTracks < 3 THEN MaxTracks ELSE 3) }

\* AudioBuffer.duration of every decoded track, in clock ticks
Duration == 2
\* arguments of seek: before the start, inside the track, past the end
SeekTimes == {-1, 1, Duration + 2}

\* callbacks handed to addOnEndedListener:
\*   "advance"  async () => { await audioManager.playNext(); }
\*   "update"   () => { setCurrentSong(audioManager.getCurrentSong()); }
\*   "unsub"    a listener that removes itself when it is called
Listeners == {"advance", "update", "unsub"}
\* callbacks handed to setOnEndedHandler
Handlers == {"hNext", "hNoop"}

\* JavaScript numbers handed to setVolume: x counts steps of 1/VolumeScale,
\* NaN is the one number that every comparison answers with false
Num(x) == [nan |-> FALSE, x |-> x]
NaN == [nan |-> TRUE, x |-> 0]
Volumes == { Num(x) : x \in -1..(VolumeScale + 1) } \cup {NaN}
Less(a, b) == ~a.nan /\ ~b.nan /\ a.x < b.x

\* what getFloatFrequencyData writes for one frequency bin
Levels == {-2, -1, 0}
\* the contents of a frequency array of frequencyBinCount elements
Bins == [1..BinCount -> Levels]
\* `new Float32Array(bufferLength)`
ZeroBins == [k \in 1..BinCount |-> 0]

\* raw samples handed to the ring mapper, in dB: below the floor, at the
\* floor, inside the range, just below and at full scale
RawLevels == {-80, -70, -35, -1, 0}
\* the arrays handed to the ring mapper, the empty one included
RingData == UNION { [1..n -> RawLevels] : n \in 0..MaxSamples }
\* the arrays handed to the two-ring mapper, one per channel
ChannelLevels == {-70, -35, 0}
ChannelData == UNION { [1..n -> ChannelLevels] : n \in 0..MaxChannelSamples }
\* the time of a frame, as the quarter turn its sine waves have reached
Phases == 0..MaxPhase

VARIABLES am, currentTime, ops, deliveries, chain, stopMid, last, ring

vars == <<am, currentTime, ops, deliveries, chain, stopMid, last, ring>>

(***************************************************************************)
(* Platform objects                                                        *)
(***************************************************************************)
\* an AudioBufferSourceNode reference; node = FALSE is the null reference
NullSource ==
    [node |-> FALSE, buffer |-> "null", onended |-> "null",
     started |-> FALSE, when |-> 0, from |-> 0, ended |-> FALSE]

\* JavaScript's % : the result takes the sign of the dividend
JsMod(a, b) == IF a >= 0 THEN a % b ELSE 0 - ((0 - a) % b)

Min(a, b) == IF a < b THEN a ELSE b
Max(a, b) == IF a > b THEN a ELSE b

\* playhead of a started source node: start(0, offset) clamps the offset into
\* the buffer and the node then follows the context clock
Playhead(src, now) == Min(Max(src.from, 0), Duration) + (now - src.when)

\* `const y = v; ...`: v is evaluated once and Op is applied to its value
Bind(v, Op(_)) == CHOOSE r \in { Op(y) : y \in {v} } : TRUE

(***************************************************************************)
(* AudioManager: constructor                                               *)
(***************************************************************************)
autoplay == FALSE

NewAudioManager ==
    [context |-> "null",
     vocalSource |-> NullSource,
     instrumentalSource |-> NullSource,
     vocalAnalyser |-> FALSE,
     instrumentalAnalyser |-> FALSE,
     vocalData |-> FALSE,
     instrumentalData |-> FALSE,
     gainNode |-> FALSE,
     gain |-> 0,
     volume |-> VolumeScale \div 10,
     vocalBins |-> <<>>,
     instrumentalBins |-> <<>>,
     vocalBuffer |-> "null",
     instrumentalBuffer |-> "null",
     initialized |-> FALSE,
     playing |-> FALSE,
     paused |-> FALSE,
     startTime |-> 0,
     offset |-> 0,
     currentSong |-> "null",
     importedSounds |-> {},
     onEndedListeners |-> <<>>,
     queue |-> <<>>,
     currentIndex |-> -1,
     onEndedHandler |-> "null"]

(***************************************************************************)
(* AudioManager: synchronous methods                                       *)
(***************************************************************************)
\* initializeAudio(): plat is what the platform does with `new AudioContext`:
\* "fail" (throws), or the state the new context starts in
initializeAudio(e, plat) ==
    IF e.initialized THEN [e |-> e, ret |-> TRUE]
    ELSE IF plat = "fail" THEN [e |-> e, ret |-> FALSE]
    ELSE [e |-> [e EXCEPT !.context = plat, !.gainNode = TRUE,
                          !.gain = VolumeScale \div 2, !.initialized = TRUE],
          ret |-> TRUE]

registerAudio(e, name) == [e EXCEPT !.importedSounds = @ \cup {name}]

\* stop(), the vocal half.  AudioScheduledSourceNode.stop() throws
\* InvalidStateError on a node that was never started; the exception leaves
\* stop() at that statement
stopVocal(e) ==
    IF ~e.vocalSource.node THEN [e |-> e, threw |-> FALSE]
    ELSE IF ~e.vocalSource.started
    THEN [e |-> [e EXCEPT !.vocalSource.onended = "null"], threw |-> TRUE]
    ELSE [e |-> [e EXCEPT !.vocalSource = NullSource,
                          !.vocalAnalyser = FALSE,
                          !.vocalData = FALSE,
                          !.vocalBins = <<>>],
          threw |-> FALSE]

\* stop(), the instrumental half
stopInstrumental(e) ==
    IF ~e.instrumentalSource.node THEN [e |-> e, threw |-> FALSE]
    ELSE IF ~e.instrumentalSource.started THEN [e |-> e, threw |-> TRUE]
    ELSE [e |-> [e EXCEPT !.instrumentalSource = NullSource,
                          !.instrumentalAnalyser = FALSE,
                          !.instrumentalData = FALSE,
                          !.instrumentalBins = <<>>],
          threw |-> FALSE]

\* stop() that tears down the vocal half only
stopVocalHalf(e) ==
    Bind(stopVocal(e), LAMBDA v :
      IF v.threw THEN v
      ELSE [e |-> [v.e EXCEPT !.playing = FALSE], threw |-> FALSE])

stop(e) ==
    Bind(stopVocal(e), LAMBDA v :
      IF v.threw THEN v
      ELSE Bind(stopInstrumental(v.e), LAMBDA i :
        IF i.threw THEN i
        ELSE [e |-> [i.e EXCEPT !.playing = FALSE], threw |-> FALSE]))

\* play(), "Create sources" to `this.startTime = this.context.currentTime`
createSession(e, now) ==
    [e EXCEPT
        !.vocalSource = [NullSource EXCEPT !.node = TRUE, !.buffer = e.vocalBuffer],
        !.instrumentalSource =
            [NullSource EXCEPT !.node = TRUE, !.buffer = e.instrumentalBuffer],
        !.vocalAnalyser = TRUE,
        !.instrumentalAnalyser = TRUE,
        !.vocalData = TRUE,
        !.instrumentalData = TRUE,
        !.vocalBins = ZeroBins,
        !.instrumentalBins = ZeroBins,
        !.startTime = now]

\* play(), the two start(0, this.offset) calls to the end of the try block
startSession(e, now) ==
    [e EXCEPT
        !.vocalSource.started = TRUE,
        !.vocalSource.when = now,
        !.vocalSource.from = e.offset,
        !.instrumentalSource.started = TRUE,
        !.instrumentalSource.when = now,
        !.instrumentalSource.from = e.offset,
        !.playing = TRUE,
        !.vocalSource.onended = "default"]

\* play(): built is TRUE when the call got as far as creating source nodes.
\* start(0, offset) throws RangeError for a negative offset; the catch block
\* logs it and leaves the nodes created but never started
play(e, now) ==
    Bind(stop(e), LAMBDA s :
      IF s.threw THEN [e |-> s.e, threw |-> TRUE, built |-> FALSE]
      ELSE IF s.e.context = "null" \/ s.e.vocalBuffer = "null"
              \/ s.e.instrumentalBuffer = "null" \/ ~s.e.gainNode
      THEN [e |-> s.e, threw |-> FALSE, built |-> FALSE]
      ELSE Bind(createSession(s.e, now), LAMBDA created :
        IF created.offset < 0
        THEN [e |-> created, threw |-> FALSE, built |-> TRUE]
        ELSE [e |-> startSession(created, now), threw |-> FALSE, built |-> TRUE]))

\* seek() that restarts playback but forgets to store the requested time
seekWithoutOffset(e, seconds, now) == play(e, now)

seek(e, seconds, now) == play([e EXCEPT !.offset = seconds], now)

\* registerPlaylist() that stops the current session before replacing the queue
registerPlaylistStops(e, songs) ==
    [stop(e).e EXCEPT !.queue = songs, !.currentIndex = -1]

\* registerPlaylist() that replaces the queue but keeps the old index
registerPlaylistKeepIndex(e, songs) == [e EXCEPT !.queue = songs]

registerPlaylist(e, songs) == [e EXCEPT !.queue = songs, !.currentIndex = -1]

setOnEndedHandler(e, handler) ==
    [e EXCEPT !.onEndedHandler = handler,
              !.vocalSource.onended = IF e.vocalSource.node THEN handler ELSE @]

addOnEndedListener(e, listener) ==
    [e EXCEPT !.onEndedListeners = Append(@, listener)]

getCurrentSong(e) ==
    IF Len(e.queue) = 0 \/ e.currentIndex < 0 \/ e.currentIndex >= Len(e.queue)
    THEN "null"
    ELSE e.queue[e.currentIndex + 1]

getDuration(e) == IF e.vocalBuffer # "null" THEN Duration ELSE 0

getCurrentTime(e, now) ==
    IF e.context = "null" THEN 0
    ELSE IF e.playing THEN now - e.startTime + e.offset
    ELSE e.offset

(***************************************************************************)
\* setVolume() that hands its argument to the gain node as it is
setVolumeUnclamped(e, value) ==
    IF ~e.gainNode THEN [e |-> e, threw |-> FALSE]
    ELSE IF value.nan THEN [e |-> e, threw |-> TRUE]
    ELSE [e |-> [e EXCEPT !.gain = value.x, !.volume = value.x], threw |-> FALSE]

\* setVolume(): the two `if`s clamp by comparison, which NaN passes
\* unchanged; assigning a non-finite number to AudioParam.value throws
\* TypeError, before this.volume is assigned
setVolume(e, value) ==
    Bind(IF Less(value, Num(0)) THEN Num(0) ELSE value, LAMBDA low :
      Bind(IF Less(Num(VolumeScale), low) THEN Num(VolumeScale) ELSE low, LAMBDA v :
        IF ~e.gainNode THEN [e |-> e, threw |-> FALSE]
        ELSE IF v.nan THEN [e |-> e, threw |-> TRUE]
        ELSE [e |-> [e EXCEPT !.gain = v.x, !.volume = v.x], threw |-> FALSE]))

\* getAudioData() that returns the vocal array without merging
getAudioDataVocalOnly(e, vocalFreq, instrumentalFreq) ==
    IF ~e.vocalData \/ ~e.instrumentalData THEN [e |-> e, ret |-> <<>>]
    ELSE [e |-> [e EXCEPT !.vocalBins = vocalFreq,
                          !.instrumentalBins = instrumentalFreq],
          ret |-> vocalFreq]

\* getAudioData(): vocalFreq and instrumentalFreq are what the two
\* analysers write into the arrays handed to getFloatFrequencyData
getAudioData(e, vocalFreq, instrumentalFreq) ==
    IF ~e.vocalData \/ ~e.instrumentalData THEN [e |-> e, ret |-> <<>>]
    ELSE
      Bind(e.vocalAnalyser /\ e.vocalData, LAMBDA vocalReady :
      Bind(e.instrumentalAnalyser /\ e.instrumentalData, LAMBDA instrReady :
      Bind([e EXCEPT
              !.vocalBins = IF vocalReady THEN vocalFreq ELSE @,
              !.instrumentalBins = IF instrReady THEN instrumentalFreq ELSE @],
           LAMBDA f :
        IF vocalReady /\ instrReady
        THEN [e |-> f,
              ret |-> [i \in 1..Min(Len(f.vocalBins), Len(f.instrumentalBins)) |->
                         Max(f.vocalBins[i], f.instrumentalBins[i])]]
        ELSE IF vocalReady THEN [e |-> f, ret |-> f.vocalBins]
        ELSE IF instrReady THEN [e |-> f, ret |-> f.instrumentalBins]
        ELSE [e |-> f, ret |-> <<>>])))

(* Bookkeeping that is not program state                                   *)
(***************************************************************************)
\* what an observer sees of the Playback Session and the decoded buffers
SessionOf(e) ==
    [streams |-> e.vocalSource.node /\ e.instrumentalSource.node,
     analysers |-> e.vocalAnalyser /\ e.instrumentalAnalyser,
     playing |-> e.playing,
     vocalBuffer |-> e.vocalBuffer,
     instrumentalBuffer |-> e.instrumentalBuffer]

\* what the step that led to the current state did.  ev is "seek", "stop",
\* "advance" (a playNext/playPrevious call), "settled" (a pending
\* playNext/playPrevious went on), "ended" (the `ended` event), "setVolume",
\* "getAudioData" or "none"; number is the argument of setVolume and data
\* the array getAudioData returned
LastBase(ev) ==
    [ev |-> ev, arg |-> 0, threw |-> FALSE,
     done |-> "null", built |-> FALSE, late |-> FALSE,
     loadOk |-> TRUE, hadSession |-> FALSE,
     via |-> "null", handlerSet |-> FALSE, handlerCalled |-> FALSE,
     triggered |-> FALSE, hadListeners |-> FALSE,
     delDone |-> FALSE, delAborted |-> FALSE, delCut |-> FALSE,
     delSnap |-> <<>>, delLog |-> <<>>,
     removed |-> "null", overflow |-> FALSE,
     number |-> Num(0), data |-> <<>>]

\* one run of triggerEnded: arr is the array its for..of loop iterates, shared
\* whether that array is still this.onEndedListeners, pos the number of
\* elements the loop has passed; snap is the array as it was when the loop
\* began and log the listeners called so far
NoDelivery ==
    [active |-> FALSE, arr |-> <<>>, shared |-> FALSE, pos |-> 0,
     snap |-> <<>>, log |-> <<>>]

AdvanceKinds == {"playNext", "playPrevious"}

IsAdvance(op) == op.kind \in AdvanceKinds

AdvanceInFlight(w) == \E i \in 1..Len(w.ops) : IsAdvance(w.ops[i])

RemoveAt(s, i) == SubSeq(s, 1, i - 1) \o SubSeq(s, i + 1, Len(s))

IsPrefix(s, t) == Len(s) <= Len(t) /\ SubSeq(t, 1, Len(s)) = s

\* the state of the whole system as one record
World == [am |-> am, ops |-> ops, deliveries |-> deliveries,
          chain |-> chain, stopMid |-> stopMid, last |-> last]

\* a call in flight: pc is the await it is suspended in ("load": loadAudio,
\* "resume": context.resume(), "suspend": context.suspend()), waiter the run
\* of triggerEnded whose listener awaits it (0: none)
NewOp(kind, pc, name, waiter, hadSession) ==
    [kind |-> kind, pc |-> pc, name |-> name, waiter |-> waiter,
     overlapped |-> FALSE, loadOk |-> FALSE, hadSession |-> hadSession]

(***************************************************************************)
(* AudioManager: listeners                                                 *)
(***************************************************************************)
\* removeOnEndedListener() that splices the listener out of the array object
\* itself: a for..of loop iterating that object sees the array shrink
spliceOnEndedListener(w, listener) ==
    [w EXCEPT !.am.onEndedListeners = SelectSeq(@, LAMBDA fn : fn # listener),
              !.deliveries = [d \in DOMAIN @ |->
                    IF @[d].active /\ @[d].shared
                    THEN [@[d] EXCEPT !.arr = SelectSeq(@, LAMBDA fn : fn # listener)]
                    ELSE @[d]],
              !.last.removed = listener]

\* removeOnEndedListener(): filter() builds a new array; a for..of loop that
\* is iterating the old array keeps iterating the old array
removeOnEndedListener(w, listener) ==
    [w EXCEPT !.am.onEndedListeners = SelectSeq(@, LAMBDA fn : fn # listener),
              !.deliveries = [d \in DOMAIN @ |->
                    IF @[d].active THEN [@[d] EXCEPT !.shared = FALSE] ELSE @[d]],
              !.last.removed = listener]

\* push() on the array object: a loop iterating that same object sees it
pushOnEndedListener(w, listener) ==
    [w EXCEPT !.am = addOnEndedListener(@, listener),
              !.deliveries = [d \in DOMAIN @ |->
                    IF @[d].active /\ @[d].shared
                    THEN [@[d] EXCEPT !.arr = Append(@, listener)]
                    ELSE @[d]]]

(***************************************************************************)
(* AudioManager: loadAudio, playNext, playPrevious                         *)
(***************************************************************************)
\* index steps that stop at the ends of the playlist instead of wrapping
NextIndexNoWrap(currentIndex, length) == Min(currentIndex + 1, length - 1)

PreviousIndexNoWrap(currentIndex, length) == Max(currentIndex - 1, 0)

NextIndex(currentIndex, length) == JsMod(currentIndex + 1, length)

PreviousIndex(currentIndex, length) == JsMod(currentIndex - 1 + length, length)

\* loadAudio() up to `await Promise.all`: pending is TRUE when it suspends
loadAudioBegin(e, name, plat) ==
    Bind(initializeAudio(e, plat), LAMBDA init :
      IF ~init.ret THEN [e |-> init.e, pending |-> FALSE]
      ELSE IF name \notin init.e.importedSounds THEN [e |-> init.e, pending |-> FALSE]
      ELSE [e |-> init.e, pending |-> TRUE])

\* loadAudio() after `await Promise.all`: decoded is FALSE when a fetch or a
\* decodeAudioData rejected
loadAudioEnd(e, name, decoded, now) ==
    IF ~decoded THEN [e |-> e, ret |-> FALSE]
    ELSE Bind([e EXCEPT !.vocalBuffer = name,
                        !.instrumentalBuffer = name,
                        !.currentSong = name],
              LAMBDA loaded :
                [e |-> IF autoplay THEN play(loaded, now).e ELSE loaded, ret |-> TRUE])

\* the tail of playNext/playPrevious: re-attach the end-of-track handler
attachHandler(e) ==
    IF e.vocalSource.node /\ e.onEndedHandler # "null"
    THEN [e EXCEPT !.vocalSource.onended = e.onEndedHandler]
    ELSE e

\* bookkeeping on the playNext/playPrevious calls that stepped the index.
\* streak counts the playNext calls since the last registerPlaylist as long
\* as they are the only ones, none began while another was in flight, none
\* was rejected and there are at most MaxChain of them (-1 otherwise); recent
\* lists the last two calls made one after the other, with the index each
\* found; stepped tells whether a call stepped the index, and invoked whether
\* playNext/playPrevious was called at all, since the last registerPlaylist
NewChain == [streak |-> 0, recent |-> <<>>, stepped |-> FALSE, invoked |-> FALSE]

NoChain(c) == [c EXCEPT !.streak = -1, !.recent = <<>>]

Called(w, kind) ==
    IF AdvanceInFlight(w) THEN [w EXCEPT !.chain = [NoChain(@) EXCEPT !.stepped = TRUE]]
    ELSE [w EXCEPT
            !.chain.stepped = TRUE,
            !.chain.streak = IF kind = "playNext" /\ @ >= 0 /\ @ < MaxChain
                             THEN @ + 1 ELSE -1,
            !.chain.recent = Append(IF Len(@) = 2 THEN Tail(@) ELSE @,
                                    [kind |-> kind, pre |-> w.am.currentIndex])]

\* playNext/playPrevious from `this.play()` after the awaited loadAudio.
\* status: "returned", "rejected" (an exception left the method) or "pending"
AdvanceAfterLoad(w, op, loadOk, now) ==
    Bind(play(w.am, now), LAMBDA p :
      Bind([w EXCEPT !.am = p.e,
                     !.last.done = op.kind,
                     !.last.loadOk = loadOk,
                     !.last.hadSession = op.hadSession,
                     !.last.built = p.built,
                     !.last.late = p.built /\ op.overlapped,
                     !.last.threw = p.threw],
           LAMBDA w1 :
             IF p.threw
             THEN [w |-> [w1 EXCEPT !.chain = NoChain(@)], status |-> "rejected"]
             ELSE IF p.e.context # "null" /\ p.e.context = "suspended"
             THEN [w |-> [w1 EXCEPT
                            !.ops = Append(@, [op EXCEPT !.pc = "resume", !.loadOk = loadOk]),
                            !.last.done = "null"],
                   status |-> "pending"]
             ELSE [w |-> [w1 EXCEPT !.am = attachHandler(p.e)], status |-> "returned"]))

\* playNext/playPrevious after `await this.context.resume()`
AdvanceAfterResume(w, op) ==
    [w |-> [w EXCEPT !.am = attachHandler([w.am EXCEPT !.paused = FALSE]),
                     !.last.done = op.kind,
                     !.last.hadSession = op.hadSession],
     status |-> "returned"]

\* playNext/playPrevious between stop() and loadAudio()
stepIndex(e, kind) ==
    [e EXCEPT !.offset = 0,
              !.vocalSource.onended = IF e.vocalSource.node THEN "null" ELSE @,
              !.currentIndex = IF kind = "playNext"
                               THEN NextIndex(e.currentIndex, Len(e.queue))
                               ELSE PreviousIndex(e.currentIndex, Len(e.queue))]

\* the world when a playNext/playPrevious call has reached its loadAudio
Launched(w, e, kind) ==
    [Called(w, kind) EXCEPT
        !.am = e,
        !.stopMid = FALSE,
        !.ops = [i \in DOMAIN @ |->
                   IF IsAdvance(@[i]) THEN [@[i] EXCEPT !.overlapped = TRUE] ELSE @[i]]]

\* playNext()/playPrevious() from the call to the first suspension
AdvanceBegin(w0, kind, waiter, plat, now) ==
    Bind([w0 EXCEPT !.chain.invoked = TRUE], LAMBDA w :
    IF Len(w.am.queue) = 0
    THEN [w |-> w, status |-> "returned"]
    ELSE
    Bind(stop(w.am), LAMBDA s :
      IF s.threw
      THEN [w |-> [w EXCEPT !.am = s.e, !.stopMid = FALSE, !.last.threw = TRUE],
            status |-> "rejected"]
      ELSE
      Bind(stepIndex(s.e, kind), LAMBDA e1 :
        Bind(e1.queue[e1.currentIndex + 1], LAMBDA song :
          Bind(loadAudioBegin(registerAudio(e1, song), song, plat), LAMBDA ld :
            Bind(Launched(w, ld.e, kind), LAMBDA w1 :
              Bind(NewOp(kind, "load", song, waiter, SessionOf(w.am).streams), LAMBDA op :
                IF ~ld.pending THEN AdvanceAfterLoad(w1, op, FALSE, now)
                ELSE IF Len(w.ops) >= MaxOps
                THEN [w |-> [w1 EXCEPT !.last.overflow = TRUE], status |-> "pending"]
                ELSE [w |-> [w1 EXCEPT !.ops = Append(@, op)], status |-> "pending"])))))))

(***************************************************************************)
(* AudioManager: triggerEnded                                              *)
(***************************************************************************)
\* a loop that calls listener() without awaiting it
AwaitNothing(status) == FALSE

\* `await listener()`: the loop waits exactly when the listener's promise is
\* still pending
AwaitListener(status) == status = "pending"

FinishDelivery(w, d, aborted) ==
    [w EXCEPT !.deliveries[d] = NoDelivery,
              !.last.delDone = ~aborted,
              !.last.delAborted = aborted,
              !.last.delCut = ~w.deliveries[d].shared,
              !.last.delSnap = w.deliveries[d].snap,
              !.last.delLog = w.deliveries[d].log]

\* the for..of loop of triggerEnded, from its current position up to the
\* next listener whose promise stays pending, or to the end of the array
RECURSIVE RunListeners(_, _, _)
RunListeners(w, d, now) ==
    IF w.deliveries[d].pos >= Len(w.deliveries[d].arr) THEN FinishDelivery(w, d, FALSE)
    ELSE
    Bind(w.deliveries[d].arr[w.deliveries[d].pos + 1], LAMBDA listener :
      Bind([w EXCEPT !.deliveries[d].pos = @ + 1,
                     !.deliveries[d].log = Append(@, listener)],
           LAMBDA w1 :
             CASE listener = "update" -> RunListeners(w1, d, now)
               [] listener = "unsub" ->
                     Bind(removeOnEndedListener(w1, listener), LAMBDA w2 :
                       RunListeners(w2, d, now))
               [] listener = "advance" ->
                     Bind(AdvanceBegin(w1, "playNext", d, "fail", now), LAMBDA r :
                       IF r.status = "rejected" THEN FinishDelivery(r.w, d, TRUE)
                       ELSE IF AwaitListener(r.status) THEN r.w
                       ELSE RunListeners(r.w, d, now))))

FreeDeliveries(w) == { d \in DOMAIN w.deliveries : ~w.deliveries[d].active }

triggerEnded(w, now) ==
    Bind(CHOOSE x \in FreeDeliveries(w) : \A y \in FreeDeliveries(w) : x <= y, LAMBDA d :
      Bind([w EXCEPT !.deliveries[d] =
                        [active |-> TRUE, arr |-> w.am.onEndedListeners, shared |-> TRUE,
                         pos |-> 0, snap |-> w.am.onEndedListeners, log |-> <<>>],
                     !.last.triggered = TRUE],
           LAMBDA w1 : RunListeners(w1, d, now)))

\* what runs after a playNext/playPrevious promise settled: the listener that
\* awaited it returns and the loop of triggerEnded goes on
Settle(r, op, now) ==
    IF op.waiter = 0 \/ r.status = "pending" THEN r.w
    ELSE IF ~r.w.deliveries[op.waiter].active THEN r.w
    ELSE IF r.status = "rejected" THEN FinishDelivery(r.w, op.waiter, TRUE)
    ELSE RunListeners(r.w, op.waiter, now)

\* the `ended` event of the vocal source node runs its onended callback
onended(w, now) ==
    Bind([w EXCEPT !.am.vocalSource.ended = TRUE,
                   !.last.via = w.am.vocalSource.onended,
                   !.last.handlerSet = w.am.onEndedHandler # "null",
                   !.last.hadListeners = w.am.onEndedListeners # <<>>],
         LAMBDA w0 :
           CASE w0.last.via = "default" ->
                   Bind([w0 EXCEPT !.am.playing = FALSE], LAMBDA w1 : triggerEnded(w1, now))
             [] w0.last.via = "hNoop" -> [w0 EXCEPT !.last.handlerCalled = TRUE]
             [] w0.last.via = "hNext" ->
                   Bind([w0 EXCEPT !.last.handlerCalled = TRUE], LAMBDA w1 :
                     AdvanceBegin(w1, "playNext", 0, "fail", now).w)
             [] OTHER -> w0)

(***************************************************************************)
(* The ring mapper                                                         *)
(***************************************************************************)
\* the floor of the mapped range in dB and the denominator of the four
\* equalizer factors 1.03125, 1.0625, 1.125 and 1.25
FloorDb == -70
EqUnit == 32
\* intensities are counted in steps of 1/(70 * 32 * 3), which makes every
\* product below exact and the gradient breakpoints 1/3 and 2/3 whole
\* numbers; IntensityOne is the intensity 1.0
IntensityOne == (0 - FloorDb) * EqUnit * 3

\* a THREE.Color as <<r, g, b>>, each channel rounded to halves and counted
\* in halves
Blue == <<0, 0, 2>>
Purple == <<1, 0, 2>>
Cyan == <<0, 2, 2>>
Yellow == <<2, 2, 0>>
Orange == <<2, 1, 0>>
Red == <<2, 0, 0>>
\* the stops a gradient is drawn from
Stops == {Blue, Orange, Cyan}
\* every choice of three stops
Gradients == { <<low, mid, high>> : low \in Stops, mid \in Stops, high \in Stops }
\* the gradientColors default and the gradient SpaceScene gives the moons
DefaultGradient == <<Blue, Purple, Cyan>>
MoonGradient == <<Yellow, Orange, Red>>
\* a colour computed by the gradient, each channel in steps of
\* 1/(2 * IntensityOne)
Scaled(c) == [k \in 1..3 |-> c[k] * IntensityOne]

\* Color.lerp(b, t) on a clone of a, with t = tNum / IntensityOne
Lerp(a, b, tNum) == [k \in 1..3 |-> a[k] * IntensityOne + (b[k] - a[k]) * tNum]

\* getGradientColor() whose last third stays at the high stop
getGradientColorNoWrap(intensity, gradient) ==
    IF 3 * intensity <= IntensityOne
    THEN Lerp(gradient[1], gradient[2], 3 * intensity)
    ELSE IF 3 * intensity <= 2 * IntensityOne
    THEN Lerp(gradient[2], gradient[3], 3 * intensity - IntensityOne)
    ELSE Scaled(gradient[3])

\* getGradientColor(): the comparisons with 1/3 and 2/3 and the three
\* values of t, each multiplied through by 3 * IntensityOne
getGradientColor(intensity, gradient) ==
    IF 3 * intensity <= IntensityOne
    THEN Lerp(gradient[1], gradient[2], 3 * intensity)
    ELSE IF 3 * intensity <= 2 * IntensityOne
    THEN Lerp(gradient[2], gradient[3], 3 * intensity - IntensityOne)
    ELSE Lerp(gradient[3], gradient[1], 3 * intensity - 2 * IntensityOne)

\* a ring segment as the animation leaves it.  scale is <<x, y, z>> in steps
\* of 1/(100 * IntensityOne), positionY in steps of 1/(200 * IntensityOne),
\* emissiveIntensity in steps of 1/(100 * IntensityOne); a segment fresh from
\* createRingPlanet has scale 1, the ring material's colour (blue unless
\* given) and the MeshStandardMaterial defaults
NewSegment ==
    [scale |-> <<100 * IntensityOne, 100 * IntensityOne, 100 * IntensityOne>>,
     positionY |-> 0,
     color |-> Scaled(Blue),
     emissive |-> Scaled(<<0, 0, 0>>),
     emissiveIntensity |-> 100 * IntensityOne]

\* the options a caller leaves out take the defaults of the destructuring;
\* amplitudes are counted in tenths, 0 stands for 0 and for null
DefaultOptions ==
    [innerWaveAmplitude |-> 5, innerWaveFrequency |-> 8,
     outerWaveAmplitude |-> 3, outerWaveFrequency |-> 6,
     gradientColors |-> DefaultGradient]

\* createRingPlanet: rings of segmentCount segments that have not been
\* animated yet; call is the animation function that ran last
createRing(segmentCount) ==
    [segmentCount |-> segmentCount, audioData |-> <<>>,
     intensity |-> [i \in 1..segmentCount |-> 0], animated |-> FALSE,
     call |-> "none",
     vocalData |-> <<>>, instrumentalData |-> <<>>,
     outerIntensity |-> [i \in 1..segmentCount |-> 0],
     options |-> DefaultOptions, phase |-> 0,
     inner |-> [i \in 1..segmentCount |-> NewSegment],
     outer |-> [i \in 1..segmentCount |-> NewSegment],
     swatch |-> [intensity |-> 0, gradient |-> DefaultGradient,
                 color |-> Scaled(Blue), done |-> FALSE]]

\* Math.sin at the quarter turns
SinQ == <<0, 1, 0, -1>>
\* `Math.sin((i / segmentCount) * Math.PI * 2 * frequency + performance.now()
\* * 0.003)`, sampled: the angle of segment i at the time of the frame is
\* taken to the quarter turn (i * frequency + phase), phase standing for the
\* clock
Wave(i, frequency, phase) == SinQ[((i * frequency + phase) % 4) + 1]
\* `1.0 + amplitude * wave`, in tenths
WaveFactor(amplitude, wave) == 10 + amplitude * wave

\* `audioData[i % audioData.length] ?? -70` that reads a missing sample as
\* 0 dB
RawAtFullScale(audioData, i) ==
    IF Len(audioData) = 0 THEN 0
    ELSE audioData[(i % Len(audioData)) + 1]

\* `audioData[i % audioData.length] ?? -70`: with an empty array the index
\* is NaN, the element undefined and the sample the floor
RawAt(audioData, i) ==
    IF Len(audioData) = 0 THEN FloorDb
    ELSE audioData[(i % Len(audioData)) + 1]

\* `Math.max(0, (audioRaw + 70) / 70)`
Normalized(raw) == Max(0, (raw - FloorDb) * EqUnit * 3)

\* applyEqualizer() without the Math.min
applyEqualizerUnclamped(intensity, i, segmentCount) ==
    IF 4 * i <= segmentCount THEN (intensity * 33) \div EqUnit
    ELSE IF 2 * i <= segmentCount THEN (intensity * 34) \div EqUnit
    ELSE IF 4 * i <= 3 * segmentCount THEN (intensity * 36) \div EqUnit
    ELSE (intensity * 40) \div EqUnit

\* applyEqualizer(): the factor of the quartile of segment i, then the clamp
applyEqualizer(intensity, i, segmentCount) ==
    IF 4 * i <= segmentCount
    THEN Min((intensity * 33) \div EqUnit, IntensityOne)
    ELSE IF 2 * i <= segmentCount
    THEN Min((intensity * 34) \div EqUnit, IntensityOne)
    ELSE IF 4 * i <= 3 * segmentCount
    THEN Min((intensity * 36) \div EqUnit, IntensityOne)
    ELSE Min((intensity * 40) \div EqUnit, IntensityOne)

\* the intensity of segment i (counted from 0) for the array `data`
IntensityAt(data, i, segmentCount) ==
    applyEqualizer(Normalized(RawAt(data, i)), i, segmentCount)

\* inner.scale.set(1 + x * 1.1, (1 + x * 5.5) * waveFactor, 1 + x * 4) and
\* inner.position.y = (innerScaleY - 1) * 0.5
InnerShape(mesh, x, waveFactor) ==
    [mesh EXCEPT
       !.scale = <<100 * IntensityOne + 110 * x,
                   (10 * IntensityOne + 55 * x) * waveFactor,
                   100 * IntensityOne + 400 * x>>,
       !.positionY = (10 * IntensityOne + 55 * x) * waveFactor - 100 * IntensityOne]

\* outer.scale.set(1 + x * 0.8, (1 + x * 3.5) * outerWaveFactor, 1 + x * 2)
\* and outer.position.y = (outerScaleY - 1) * 0.5
OuterShape(mesh, x, waveFactor) ==
    [mesh EXCEPT
       !.scale = <<100 * IntensityOne + 80 * x,
                   (10 * IntensityOne + 35 * x) * waveFactor,
                   100 * IntensityOne + 200 * x>>,
       !.positionY = (10 * IntensityOne + 35 * x) * waveFactor - 100 * IntensityOne]

\* the material of the inner ring: color, emissive and
\* emissiveIntensity = 0.2 + x * 1.5
InnerPaint(mesh, x, gradient) ==
    [mesh EXCEPT
       !.color = getGradientColor(x, gradient),
       !.emissive = getGradientColor(x, gradient),
       !.emissiveIntensity = 20 * IntensityOne + 150 * x]

\* the material of the outer ring: emissiveIntensity = 0.15 + x * 1.2
OuterPaint(mesh, x, gradient) ==
    [mesh EXCEPT
       !.color = getGradientColor(x, gradient),
       !.emissive = getGradientColor(x, gradient),
       !.emissiveIntensity = 15 * IntensityOne + 120 * x]

\* animateOneRingAudio(): every segment of the ring takes its intensity from
\* audioData and from it its scale, position, colour and emissive intensity
animateOneRingAudio(r, audioData, options, phase) ==
    Bind([k \in 1..r.segmentCount |-> IntensityAt(audioData, k - 1, r.segmentCount)],
         LAMBDA x :
      [r EXCEPT
         !.call = "one",
         !.audioData = audioData,
         !.options = options,
         !.phase = phase,
         !.animated = TRUE,
         !.intensity = x,
         !.inner =
            [k \in 1..r.segmentCount |->
               InnerPaint(
                 InnerShape(r.inner[k], x[k],
                            WaveFactor(options.innerWaveAmplitude,
                                       Wave(k - 1, options.innerWaveFrequency, phase))),
                 x[k], options.gradientColors)]])

\* animateTwoRingAudio() that feeds the vocal array to both rings
animateTwoRingAudioMono(r, vocalData, instrumentalData, options, phase) ==
    Bind([k \in 1..r.segmentCount |-> IntensityAt(vocalData, k - 1, r.segmentCount)],
         LAMBDA v :
      Bind(options.outerWaveAmplitude # 0 /\ options.outerWaveFrequency # 0,
           LAMBDA drawOuter :
        [r EXCEPT
           !.call = "two",
           !.vocalData = vocalData,
           !.instrumentalData = instrumentalData,
           !.options = options,
           !.phase = phase,
           !.animated = TRUE,
           !.intensity = v,
           !.outerIntensity = v,
           !.inner =
              [k \in 1..r.segmentCount |->
                 Bind(InnerShape(r.inner[k], v[k],
                                 WaveFactor(options.innerWaveAmplitude,
                                            Wave(k - 1, options.innerWaveFrequency, phase))),
                      LAMBDA shaped :
                   IF drawOuter THEN InnerPaint(shaped, v[k], options.gradientColors)
                   ELSE shaped)],
           !.outer =
              [k \in 1..r.segmentCount |->
                 IF drawOuter
                 THEN OuterPaint(
                        OuterShape(r.outer[k], v[k],
                                   WaveFactor(options.outerWaveAmplitude,
                                              Wave(k - 1, options.outerWaveFrequency, phase))),
                        v[k], options.gradientColors)
                 ELSE r.outer[k]]]))

\* animateTwoRingAudio(): the inner ring takes its intensity from vocalData,
\* the outer ring from instrumentalData.  The outer ring, and with it the
\* material of the inner ring, is written only under
\* `if (outerRingSegments && outerWaveAmplitude && outerWaveFrequency)`
animateTwoRingAudio(r, vocalData, instrumentalData, options, phase) ==
    Bind([k \in 1..r.segmentCount |-> IntensityAt(vocalData, k - 1, r.segmentCount)],
         LAMBDA v :
    Bind([k \in 1..r.segmentCount |->
            IntensityAt(instrumentalData, k - 1, r.segmentCount)],
         LAMBDA n :
      Bind(options.outerWaveAmplitude # 0 /\ options.outerWaveFrequency # 0,
           LAMBDA drawOuter :
        [r EXCEPT
           !.call = "two",
           !.vocalData = vocalData,
           !.instrumentalData = instrumentalData,
           !.options = options,
           !.phase = phase,
           !.animated = TRUE,
           !.intensity = v,
           !.outerIntensity = n,
           !.inner =
              [k \in 1..r.segmentCount |->
                 Bind(InnerShape(r.inner[k], v[k],
                                 WaveFactor(options.innerWaveAmplitude,
                                            Wave(k - 1, options.innerWaveFrequency, phase))),
                      LAMBDA shaped :
                   IF drawOuter THEN InnerPaint(shaped, v[k], options.gradientColors)
                   ELSE shaped)],
           !.outer =
              [k \in 1..r.segmentCount |->
                 IF drawOuter
                 THEN OuterPaint(
                        OuterShape(r.outer[k], n[k],
                                   WaveFactor(options.outerWaveAmplitude,
                                              Wave(k - 1, options.outerWaveFrequency, phase))),
                        n[k], options.gradientColors)
                 ELSE r.outer[k]]])))

(***************************************************************************)
(* The state machine                                                       *)
(***************************************************************************)
\* what `new AudioContext()` can do: throw, or start running or suspended
\* (a context made before a user gesture starts suspended)
Platforms == {"fail", "running", "suspended"}

\* the platform only matters to a call that has to initialize the engine
PlatformsFor(e) == IF e.initialized THEN {"fail"} ELSE Platforms

\* the rest of the state when the engine is e and nothing has happened yet
StartWith(e) ==
    /\ am = e
    /\ currentTime = 0
    /\ ops = <<>>
    /\ deliveries = [d \in 1..MaxDeliveries |-> NoDelivery]
    /\ chain = NewChain
    /\ stopMid = FALSE
    /\ last = LastBase("none")
    /\ ring = createRing(MaxSegments)

\* `export const audioManager = new AudioManager()`
Init == StartWith(NewAudioManager)

\* the engine with a one-track playlist registered and nothing else done
InitOneTrack == StartWith(registerPlaylist(NewAudioManager, <<"a">>))

\* the engine after the first two calls of AudioProvider.startAudio, made in
\* a click handler: initializeAudio() and registerPlaylist(playlist)
InitReady ==
    StartWith(registerPlaylist(initializeAudio(NewAudioManager, "running").e, <<"a">>))

\* the step that leaves the world w0 behind
Commit(w0) ==
    \E w \in {w0} :
       /\ ~w.last.overflow
       /\ am' = w.am
       /\ ops' = w.ops
       /\ deliveries' = w.deliveries
       /\ chain' = w.chain
       /\ stopMid' = w.stopMid
       /\ last' = w.last
       /\ UNCHANGED <<currentTime, ring>>

Begin(ev) == [World EXCEPT !.last = LastBase(ev)]

InitializeAudio ==
    /\ ~am.initialized
    /\ \E plat \in Platforms :
         \E w \in {[Begin("none") EXCEPT !.am = initializeAudio(am, plat).e]} :
            Commit(w)

RegisterPlaylist ==
    \E songs \in Playlists :
       \E w \in {[Begin("none") EXCEPT
                    !.am = registerPlaylist(am, songs),
                    !.chain = NewChain]} :
          Commit(w)

\* playNext() that calls stop() before it looks at the playlist
PlayNextStopsFirst ==
    \E plat \in PlatformsFor(am) :
       \E w \in {[Begin("advance") EXCEPT !.stopMid = FALSE, !.am = stop(am).e]} :
          Commit(AdvanceBegin(w, "playNext", 0, plat, currentTime).w)

PlayNext ==
    \E plat \in PlatformsFor(am) :
       \E w \in {[Begin("advance") EXCEPT !.stopMid = FALSE]} :
          Commit(AdvanceBegin(w, "playNext", 0, plat, currentTime).w)

PlayPrevious ==
    \E plat \in PlatformsFor(am) :
       \E w \in {[Begin("advance") EXCEPT !.stopMid = FALSE]} :
          Commit(AdvanceBegin(w, "playPrevious", 0, plat, currentTime).w)

Seek ==
    \E seconds \in SeekTimes :
       \E r \in {seek(am, seconds, currentTime)} :
          Commit([Begin("seek") EXCEPT !.am = r.e,
                                       !.stopMid = FALSE,
                                       !.last.arg = seconds,
                                       !.last.threw = r.threw])

Stop ==
    \E r \in {stop(am)} :
       Commit([Begin("stop") EXCEPT
                 !.am = r.e,
                 !.stopMid = \E i \in 1..Len(ops) : IsAdvance(ops[i]) /\ ops[i].pc = "load",
                 !.last.threw = r.threw])

\* pause() up to `await this.context.suspend()`
Pause ==
    /\ am.context # "null" /\ am.context = "running"
    /\ Len(ops) < MaxOps
    /\ Commit([Begin("none") EXCEPT
                 !.stopMid = FALSE,
                 !.ops = Append(@, NewOp("pause", "suspend", "null", 0, FALSE))])

\* resume() up to `await this.context.resume()`
Resume ==
    /\ am.context # "null" /\ am.context = "suspended"
    /\ Len(ops) < MaxOps
    /\ Commit([Begin("none") EXCEPT
                 !.stopMid = FALSE,
                 !.ops = Append(@, NewOp("resume", "resume", "null", 0, FALSE))])

SetOnEndedHandler ==
    \E handler \in Handlers :
       \E w \in {[Begin("none") EXCEPT !.am = setOnEndedHandler(am, handler)]} :
          Commit(w)

AddOnEndedListener ==
    /\ Len(am.onEndedListeners) < MaxListeners
    /\ \E listener \in Listeners :
         \E w \in {Begin("none")} : Commit(pushOnEndedListener(w, listener))

RemoveOnEndedListener ==
    \E i \in 1..Len(am.onEndedListeners) :
       \E w \in {Begin("none")} :
          Commit(removeOnEndedListener(w, am.onEndedListeners[i]))

\* the fetches and decodes awaited by loadAudio settle, all of them well
LoadDecoded ==
    \E i \in 1..Len(ops) :
       /\ ops[i].pc = "load"
       /\ \E ld \in {loadAudioEnd(am, ops[i].name, TRUE, currentTime)} :
          \E w \in {[Begin("settled") EXCEPT !.am = ld.e, !.ops = RemoveAt(@, i)]} :
          \E r \in {AdvanceAfterLoad(w, ops[i], ld.ret, currentTime)} :
             Commit(Settle(r, ops[i], currentTime))

\* the fetches and decodes awaited by loadAudio settle, well or not
LoadDone ==
    \E i \in 1..Len(ops) : \E decoded \in BOOLEAN :
       /\ ops[i].pc = "load"
       /\ \E ld \in {loadAudioEnd(am, ops[i].name, decoded, currentTime)} :
          \E w \in {[Begin("settled") EXCEPT !.am = ld.e, !.ops = RemoveAt(@, i)]} :
          \E r \in {AdvanceAfterLoad(w, ops[i], ld.ret, currentTime)} :
             Commit(Settle(r, ops[i], currentTime))

\* the promise of context.resume() settles: the context is running again
ContextResumed ==
    \E i \in 1..Len(ops) :
       /\ ops[i].pc = "resume"
       /\ \E w \in {[Begin(IF IsAdvance(ops[i]) THEN "settled" ELSE "none") EXCEPT
                        !.am.context = "running",
                        !.ops = RemoveAt(@, i)]} :
             IF IsAdvance(ops[i])
             THEN \E r \in {AdvanceAfterResume(w, ops[i])} :
                     Commit(Settle(r, ops[i], currentTime))
             ELSE Commit([w EXCEPT !.am.paused = FALSE, !.am.playing = TRUE])

\* pause() that tears the session down once the context is suspended
ContextSuspendedTearsDown ==
    \E i \in 1..Len(ops) :
       /\ ops[i].pc = "suspend"
       /\ \E s \in {stop(am)} :
            Commit([Begin("none") EXCEPT
                      !.am = [s.e EXCEPT !.context = "suspended",
                                         !.paused = TRUE,
                                         !.playing = FALSE],
                      !.ops = RemoveAt(@, i)])

\* the promise of context.suspend() settles: the context clock stands still
ContextSuspended ==
    \E i \in 1..Len(ops) :
       /\ ops[i].pc = "suspend"
       /\ Commit([Begin("none") EXCEPT
                    !.am.context = "suspended",
                    !.am.paused = TRUE,
                    !.am.playing = FALSE,
                    !.ops = RemoveAt(@, i)])

\* the vocal source node played its buffer to the end
VocalEnded ==
    /\ am.vocalSource.node /\ am.vocalSource.started /\ ~am.vocalSource.ended
    /\ Playhead(am.vocalSource, currentTime) >= Duration
    /\ am.vocalSource.onended = "default" => \E d \in DOMAIN deliveries : ~deliveries[d].active
    /\ \E w \in {Begin("ended")} : Commit(onended(w, currentTime))

\* the context clock advances while the context is running
Tick ==
    /\ am.context = "running"
    /\ currentTime < MaxTime
    /\ currentTime' = currentTime + 1
    /\ last' = LastBase("none")
    /\ UNCHANGED <<am, ops, deliveries, chain, stopMid, ring>>

SetVolume ==
    \E value \in Volumes :
       \E r \in {setVolume(am, value)} :
          Commit([Begin("setVolume") EXCEPT !.am = r.e,
                                            !.last.number = value,
                                            !.last.threw = r.threw])

\* one frame of a visualiser: the analysers report the current spectrum
GetAudioData ==
    \E vocalFreq \in Bins : \E instrumentalFreq \in Bins :
       \E r \in {getAudioData(am, vocalFreq, instrumentalFreq)} :
          Commit([Begin("getAudioData") EXCEPT !.am = r.e, !.last.data = r.ret])

\* one animation frame of a planet with a single ring
AnimateOneRingAudio ==
    /\ \E audioData \in RingData, phase \in Phases :
       \E gradient \in {DefaultGradient, MoonGradient} :
          ring' = animateOneRingAudio(
                    ring, audioData,
                    [DefaultOptions EXCEPT !.gradientColors = gradient], phase)
    /\ UNCHANGED <<am, currentTime, ops, deliveries, chain, stopMid, last>>

\* one animation frame of a planet with two rings; the caller may give the
\* outer wave options as numbers, as 0 or as null
AnimateTwoRingAudio ==
    /\ \E vocalData \in ChannelData, instrumentalData \in ChannelData :
       \E outerWave \in {<<4, 6>>, <<0, 6>>, <<4, 0>>}, phase \in Phases :
          ring' = animateTwoRingAudio(
                    ring, vocalData, instrumentalData,
                    [DefaultOptions EXCEPT !.outerWaveAmplitude = outerWave[1],
                                           !.outerWaveFrequency = outerWave[2]],
                    phase)
    /\ UNCHANGED <<am, currentTime, ops, deliveries, chain, stopMid, last>>

\* the colour of one intensity under one gradient
GetGradientColor ==
    /\ \E k \in 0..GradientSteps : \E gradient \in Gradients :
          ring' = [ring EXCEPT
                     !.swatch = [intensity |-> (k * IntensityOne) \div GradientSteps,
                                 gradient |-> gradient,
                                 color |-> getGradientColor(
                                             (k * IntensityOne) \div GradientSteps,
                                             gradient),
                                 done |-> TRUE]]
    /\ UNCHANGED <<am, currentTime, ops, deliveries, chain, stopMid, last>>

\* The whole system: every call of the API in any order
Next ==
    \/ InitializeAudio
    \/ RegisterPlaylist
    \/ PlayNext
    \/ PlayPrevious
    \/ Seek
    \/ Stop
    \/ Pause
    \/ Resume
    \/ SetOnEndedHandler
    \/ AddOnEndedListener
    \/ RemoveOnEndedListener
    \/ LoadDone
    \/ ContextResumed
    \/ ContextSuspended
    \/ VocalEnded
    \/ Tick
    \/ SetVolume
    \/ GetAudioData
    \/ AnimateOneRingAudio
    \/ AnimateTwoRingAudio
    \/ GetGradientColor

Spec == Init /\ [][Next]_vars

(***************************************************************************)
(* The engine under a part of its environment.  Every specification below  *)
(* runs the same engine; it differs from Spec in the calls its callers     *)
(* make, so that the reachable states can be enumerated.                   *)
(***************************************************************************)
\* the playlist and the transport without pause/resume; the clock stands still
NextPlaylist ==
    \/ RegisterPlaylist
    \/ PlayNext
    \/ PlayPrevious
    \/ Seek
    \/ Stop
    \/ LoadDone
    \/ ContextResumed

SpecPlaylist == Init /\ [][NextPlaylist]_vars

\* the playlist, stop and pause/resume; the clock stands still
NextTransport ==
    \/ RegisterPlaylist
    \/ PlayNext
    \/ PlayPrevious
    \/ Stop
    \/ Pause
    \/ Resume
    \/ LoadDone
    \/ ContextResumed
    \/ ContextSuspended

SpecTransport == Init /\ [][NextTransport]_vars

\* one track, the transport and the context clock
NextClock ==
    \/ PlayNext
    \/ Seek
    \/ Pause
    \/ Resume
    \/ LoadDone
    \/ ContextResumed
    \/ ContextSuspended
    \/ VocalEnded
    \/ Tick

SpecClock == InitOneTrack /\ [][NextClock]_vars

\* the end-of-track listeners of an initialized engine
NextListeners ==
    \/ PlayNext
    \/ AddOnEndedListener
    \/ RemoveOnEndedListener
    \/ LoadDone
    \/ VocalEnded
    \/ Tick

SpecListeners == InitReady /\ [][NextListeners]_vars

\* the end-of-track handler next to the listeners
NextHandler ==
    \/ PlayNext
    \/ Seek
    \/ SetOnEndedHandler
    \/ AddOnEndedListener
    \/ LoadDone
    \/ VocalEnded
    \/ Tick

SpecHandler == InitReady /\ [][NextHandler]_vars

\* the volume control: the engine before and after initialization
NextVolume ==
    \/ InitializeAudio
    \/ RegisterPlaylist
    \/ SetVolume
    \/ Tick

SpecVolume == Init /\ [][NextVolume]_vars

\* a visualiser polling the spectrum of one track that is started and stopped
NextSpectrum ==
    \/ PlayNext
    \/ Stop
    \/ LoadDone
    \/ GetAudioData
    \/ Tick

SpecSpectrum == InitReady /\ [][NextSpectrum]_vars

\* the ring mapper alone: rings of every size, fed any array
InitRing ==
    /\ am = NewAudioManager
    /\ currentTime = 0
    /\ ops = <<>>
    /\ deliveries = [d \in 1..MaxDeliveries |-> NoDelivery]
    /\ chain = NewChain
    /\ stopMid = FALSE
    /\ last = LastBase("none")
    /\ ring \in { createRing(n) : n \in 1..MaxSegments }

NextRing == AnimateOneRingAudio

SpecRing == InitRing /\ [][NextRing]_vars

\* the two-ring mapper alone
NextTwoRing == AnimateTwoRingAudio

\* a planet with two rings of two segments each, as createRingPlanet builds it
InitTwoRing ==
    /\ am = NewAudioManager
    /\ currentTime = 0
    /\ ops = <<>>
    /\ deliveries = [d \in 1..MaxDeliveries |-> NoDelivery]
    /\ chain = NewChain
    /\ stopMid = FALSE
    /\ last = LastBase("none")
    /\ ring = createRing(2)

SpecTwoRing == InitTwoRing /\ [][NextTwoRing]_vars

\* the gradient alone
NextGradient == GetGradientColor

SpecGradient == InitRing /\ [][NextGradient]_vars

\* the playlist that goes on by itself: the engine in the middle of
\* AudioProvider.startAudio, i.e. after initializeAudio() and
\* registerPlaylist(playlist) and inside `await audioManager.playNext()`,
\* with the listener that startAudio adds as soon as that call has settled;
\* no stream exists before that call settles, so no `ended` event can tell the
\* two orders apart
InitContinue ==
    \E e \in {addOnEndedListener(
                 registerPlaylist(initializeAudio(NewAudioManager, "running").e,
                                  SubSeq(Library, 1, MaxTracks)),
                 "advance")} :
    \E w0 \in {[am |-> e, ops |-> <<>>,
                deliveries |-> [d \in 1..MaxDeliveries |-> NoDelivery],
                chain |-> NewChain, stopMid |-> FALSE, last |-> LastBase("advance")]} :
    \E w \in {AdvanceBegin(w0, "playNext", 0, "fail", 0).w} :
       /\ am = w.am
       /\ currentTime = 0
       /\ ops = w.ops
       /\ deliveries = w.deliveries
       /\ chain = w.chain
       /\ stopMid = w.stopMid
       /\ last = w.last
       /\ ring = createRing(MaxSegments)

\* what happens to it afterwards: the tracks decode and end, and the seek bar
\* of ControlButtons is used
NextContinue ==
    \/ Seek
    \/ LoadDecoded
    \/ VocalEnded
    \/ Tick

\* a fetch that is under way settles, and the `ended` event of a node that has
\* played its buffer out is dispatched
SpecContinue ==
    /\ InitContinue
    /\ [][NextContinue]_vars
    /\ WF_vars(LoadDecoded)
    /\ WF_vars(VocalEnded)

(***************************************************************************)
(* Properties                                                              *)
(***************************************************************************)
\* the Stopped state: not playing, no stream handles, no analysers
Stopped(e) ==
    /\ ~e.playing
    /\ ~e.vocalSource.node /\ ~e.instrumentalSource.node
    /\ ~e.vocalAnalyser /\ ~e.instrumentalAnalyser

C2_PlayPreviousSteps ==
    (/\ Len(chain.recent) >= 1 /\ ~AdvanceInFlight(World) /\ Len(am.queue) >= 1
     /\ chain.recent[Len(chain.recent)].kind = "playPrevious"
     /\ chain.recent[Len(chain.recent)].pre \in 0..(Len(am.queue) - 1)) =>
        /\ am.currentIndex = (chain.recent[Len(chain.recent)].pre - 1) % Len(am.queue)
        /\ chain.recent[Len(chain.recent)].pre = 0 => am.currentIndex = Len(am.queue) - 1
        /\ (/\ Len(chain.recent) = 2
            /\ chain.recent[1].kind = "playNext"
            /\ chain.recent[1].pre \in 0..(Len(am.queue) - 1)) =>
                am.currentIndex = chain.recent[1].pre

\* on [a, b]: playNext() from 1 wrapped to 0, playPrevious() wrapped back to 1
C2_RoundTrip ==
    /\ Len(chain.recent) = 2 /\ ~AdvanceInFlight(World)
    /\ am.queue = <<"a", "b">>
    /\ chain.recent[1] = [kind |-> "playNext", pre |-> 1]
    /\ chain.recent[2] = [kind |-> "playPrevious", pre |-> 0]
    /\ am.currentIndex = 1

C4_AdvancesSerialized == ~last.late

\* C5: when stop() was called while a playNext/playPrevious was suspended in
\* its fetch+decode and no other transport call followed, the engine is in
\* the Stopped state once no playNext/playPrevious is in flight
C5_StopDiscardsDecode ==
    (stopMid /\ ~AdvanceInFlight(World)) => Stopped(am)

\* C6: when the fetch or decode awaited by playNext/playPrevious has failed,
\* no exception leaves the call, no session is constructed and the engine has
\* stream handles exactly if it had them before the call
C6_FailedLoadKeepsSession ==
    (last.ev = "settled" /\ ~last.loadOk) =>
        /\ ~last.threw
        /\ ~last.built
        /\ SessionOf(am).streams = last.hadSession

\* C7: when the vocal stream ends naturally, the handler set through
\* setOnEndedHandler (if any) is invoked and the registered listeners (if
\* any) are notified
C7_EndNotifiesAll ==
    last.ev = "ended" =>
        /\ last.handlerSet => last.handlerCalled
        /\ last.hadListeners => last.triggered

\* C8: a notification calls the listeners in the order of the array, and
\* while the promise of a listener is pending that listener is the last one
\* called and the only one the notification waits for
C8_ListenersOneAtATime ==
    \A d \in DOMAIN deliveries :
        /\ deliveries[d].active =>
              deliveries[d].log = SubSeq(deliveries[d].arr, 1, deliveries[d].pos)
        /\ \A i \in 1..Len(ops) : ops[i].waiter = d =>
              /\ deliveries[d].active
              /\ deliveries[d].pos >= 1
              /\ deliveries[d].arr[deliveries[d].pos] = "advance"
              /\ \A j \in 1..Len(ops) : ops[j].waiter = d => j = i

\* the listener awaiting playNext() was called first; the next listener ran
\* in the step that settled its promise
C8_SecondAfterFirstSettled ==
    /\ last.ev = "settled"
    /\ last.delDone
    /\ last.delLog = <<"advance", "update">>

\* C9: a notification calls every listener registered when it began exactly
\* once, also when listeners are removed while it runs, and a removed listener
\* is no longer in the list that later notifications iterate
C9_RemovalDuringDelivery ==
    /\ \A d \in DOMAIN deliveries : deliveries[d].active =>
          /\ IsPrefix(deliveries[d].snap,
                      deliveries[d].log \o SubSeq(deliveries[d].arr,
                                                  deliveries[d].pos + 1,
                                                  Len(deliveries[d].arr)))
          /\ deliveries[d].shared => deliveries[d].arr = am.onEndedListeners
    /\ (last.delDone \/ last.delAborted) => IsPrefix(last.delSnap, last.delLog)
    /\ last.removed # "null" =>
          \A i \in 1..Len(am.onEndedListeners) : am.onEndedListeners[i] # last.removed

\* the first listener removed itself while the notification ran; the second
\* was still called
C9_SelfRemovalDelivered ==
    /\ last.delDone /\ last.delCut
    /\ last.delSnap = <<"unsub", "update">>
    /\ last.delLog = <<"unsub", "update">>
    /\ am.onEndedListeners = <<"update">>

C11_TimeWithinTrack ==
    /\ getCurrentTime(am, currentTime) >= 0
    /\ getCurrentTime(am, currentTime) <= getDuration(am) + 1

\* C12: when pause() takes effect while getCurrentTime() is p,
\* getCurrentTime() is still p in the paused engine
C12_PauseKeepsTime ==
    [][(am.context = "running" /\ am'.context = "suspended" /\ am.playing) =>
          getCurrentTime(am', currentTime') = getCurrentTime(am, currentTime)]_vars

\* C13: from every reachable state stop() does not throw and leaves
\* playing false with stream handles, analysers and frequency arrays
\* absent, and a second stop() changes nothing and does not throw
C13_StopIdempotent ==
    /\ ~stop(am).threw
    /\ Stopped(stop(am).e)
    /\ ~stop(am).e.vocalData /\ ~stop(am).e.instrumentalData
    /\ stop(stop(am).e) = [e |-> stop(am).e, threw |-> FALSE]

C15_RegisterPlaylistFrame ==
    \A songs \in Playlists :
       /\ registerPlaylist(am, songs).queue = songs
       /\ registerPlaylist(am, songs).currentIndex = -1
       /\ \A f \in {"playing", "paused", "vocalSource", "instrumentalSource",
                    "vocalAnalyser", "instrumentalAnalyser",
                    "vocalData", "instrumentalData",
                    "vocalBuffer", "instrumentalBuffer",
                    "offset", "startTime"} :
             registerPlaylist(am, songs)[f] = am[f]

\* a playlist registered while a track of the previous playlist is playing
\* from the position of a seek
C15_RegisteredWhilePlaying ==
    /\ am.currentIndex = -1 /\ Len(am.queue) = 2
    /\ am.playing /\ am.vocalSource.started /\ am.vocalBuffer = "a"
    /\ am.offset = 1

\* C16: a playNext() or playPrevious() call made while the playlist is empty
\* returns without throwing and changes nothing: currentIndex stays -1, the
\* session and every other field of the engine stay as they were, and no
\* call is left pending
C16_EmptyPlaylistNoOp ==
    [][(Len(am.queue) = 0 /\ last'.ev = "advance") =>
          /\ am' = am
          /\ am'.currentIndex = -1
          /\ ops' = ops
          /\ ~last'.threw]_vars

\* playNext()/playPrevious() called with an empty playlist registered while
\* a track is playing
C16_CalledOnEmptyWhilePlaying ==
    /\ last.ev = "advance" /\ chain.invoked
    /\ Len(am.queue) = 0 /\ am.currentIndex = -1
    /\ am.playing /\ am.vocalSource.started

\* C17: while the engine is uninitialized and the platform cannot construct
\* an audio context, initializeAudio() returns false and leaves the engine
\* as it is, and seek, stop, playNext and playPrevious do not throw and
\* change no field of the engine
C17_UninitializedNoOps ==
    ~am.initialized =>
       /\ initializeAudio(am, "fail") = [e |-> am, ret |-> FALSE]
       /\ stop(am) = [e |-> am, threw |-> FALSE]
       /\ \A seconds \in SeekTimes :
             /\ ~seek(am, seconds, currentTime).threw
             /\ seek(am, seconds, currentTime).e = am
       /\ \A kind \in AdvanceKinds :
             /\ ~AdvanceBegin(World, kind, 0, "fail", currentTime).w.last.threw
             /\ AdvanceBegin(World, kind, 0, "fail", currentTime).w.am = am

Clamped(x) == Max(0, Min(x, VolumeScale))

\* C18, as the code has it: on an initialized engine setVolume(v) with any
\* number v other than NaN returns normally and sets the master gain and
\* the volume field to v clamped to [0, 1]
C18_SetVolumeClamps ==
    (last.ev = "setVolume" /\ am.initialized /\ ~last.number.nan) =>
        /\ ~last.threw
        /\ am.gain = Clamped(last.number.x)
        /\ am.volume = Clamped(last.number.x)

\* C18, as stated: on an initialized engine setVolume(v) with any v returns
\* normally and leaves the master gain and the volume field at one common
\* value within [0, 1], which is v clamped when v is an ordinary number
C18_SetVolumeClampsAnyNumber ==
    (last.ev = "setVolume" /\ am.initialized) =>
        /\ ~last.threw
        /\ am.gain = am.volume
        /\ am.gain >= 0 /\ am.gain <= VolumeScale
        /\ ~last.number.nan => am.gain = Clamped(last.number.x)

\* setVolume with an argument above 1 on an initialized engine
C18_ClampedFromAbove ==
    /\ last.ev = "setVolume" /\ am.initialized
    /\ last.number = Num(VolumeScale + 1)
    /\ am.gain = VolumeScale /\ am.volume = VolumeScale

\* C19: getAudioData() called with both analysers present returns an array
\* as long as the shorter of the two frequency arrays whose i-th element is
\* the larger of the two i-th samples; called with no analyser present it
\* returns an empty array; it never throws
C19_MergedSpectrum ==
    last.ev = "getAudioData" =>
       /\ ~last.threw
       /\ (am.vocalAnalyser /\ am.instrumentalAnalyser) =>
             /\ Len(last.data) = Min(Len(am.vocalBins), Len(am.instrumentalBins))
             /\ \A i \in 1..Len(last.data) :
                   last.data[i] = Max(am.vocalBins[i], am.instrumentalBins[i])
       /\ (~am.vocalAnalyser /\ ~am.instrumentalAnalyser) => last.data = <<>>

\* a merged spectrum that takes one sample from each of the two streams
C19_MergedFromBoth ==
    /\ last.ev = "getAudioData"
    /\ am.vocalAnalyser /\ am.instrumentalAnalyser
    /\ am.vocalBins = <<0, -2>> /\ am.instrumentalBins = <<-1, -1>>
    /\ last.data = <<0, -1>>

\* C20: after a frame, the intensity of every segment of the ring lies in
\* [0, 1], whatever the number of segments and whatever samples at or below
\* 0 dB the array holds, samples below the floor and missing samples included
C20_IntensityInRange ==
    ring.animated =>
       \A k \in 1..ring.segmentCount :
          /\ ring.intensity[k] >= 0
          /\ ring.intensity[k] <= IntensityOne

\* a ring with a segment in every quartile, fed a full-scale sample and one
\* below the floor: the last segment is clamped to 1, its neighbour is 0
C20_ClampedAtBothEnds ==
    /\ ring.animated /\ ring.segmentCount = 5
    /\ ring.audioData = <<0, -80>>
    /\ ring.intensity[5] = IntensityOne
    /\ ring.intensity[4] = 0

C22_EmptyDataFlatRing ==
    (ring.call = "one" /\ ring.audioData = <<>>) =>
       \A k \in 1..ring.segmentCount :
          LET waveFactor ==
                 WaveFactor(ring.options.innerWaveAmplitude,
                            Wave(k - 1, ring.options.innerWaveFrequency, ring.phase))
          IN /\ ring.intensity[k] = 0
             /\ ring.inner[k].scale[1] = 100 * IntensityOne
             /\ ring.inner[k].scale[3] = 100 * IntensityOne
             /\ ring.inner[k].scale[2] = 10 * IntensityOne * waveFactor
             /\ ring.inner[k].positionY = ring.inner[k].scale[2] - 100 * IntensityOne
             /\ ring.inner[k].emissiveIntensity = 20 * IntensityOne

\* a ring of five segments animated with an empty array at a moment when
\* the wave is at its crest: scale y is 1.5
C22_EmptyDataAtCrest ==
    /\ ring.call = "one" /\ ring.audioData = <<>> /\ ring.segmentCount = 5
    /\ ring.phase = 1
    /\ ring.inner[5].scale = <<100 * IntensityOne, 150 * IntensityOne, 100 * IntensityOne>>
    /\ ring.inner[5].positionY = 50 * IntensityOne

\* C23: in a frame of animateTwoRingAudio what is written to the inner ring
\* is what would have been written with any other instrumental array, and
\* what is written to the outer ring is what would have been written with
\* any other vocal array; vocal samples at the floor with instrumental
\* samples at 0 dB give inner intensity 0 and outer intensity 1
C23_ChannelsIndependent ==
    [][ring'.call = "two" =>
          /\ \A other \in ChannelData :
                /\ animateTwoRingAudio(ring, ring'.vocalData, other,
                                       ring'.options, ring'.phase).inner = ring'.inner
                /\ animateTwoRingAudio(ring, other, ring'.instrumentalData,
                                       ring'.options, ring'.phase).outer = ring'.outer
          /\ (ring'.vocalData = <<-70>> /\ ring'.instrumentalData = <<0>>) =>
                \A k \in 1..ring'.segmentCount :
                   /\ ring'.intensity[k] = 0
                   /\ ring'.outerIntensity[k] = IntensityOne]_vars

\* a silent vocal channel beside a full-scale instrumental channel: the
\* inner ring at its smallest, the outer ring at its largest
C23_SilentVocalLoudInstrumental ==
    /\ ring.call = "two"
    /\ ring.vocalData = <<-70>> /\ ring.instrumentalData = <<0>>
    /\ ring.options.outerWaveAmplitude = 4 /\ ring.options.outerWaveFrequency = 6
    /\ ring.inner[1].scale[1] = 100 * IntensityOne
    /\ ring.outer[1].scale[1] = 180 * IntensityOne
    /\ ring.outer[1].emissiveIntensity = 135 * IntensityOne

\* C30: after every call of animateTwoRingAudio, whatever the outer wave
\* options are, the color and the emissive intensity of every inner-ring
\* segment are the ones of its vocal intensity in this call
C30_InnerMaterialUpdated ==
    ring.call = "two" =>
       \A k \in 1..ring.segmentCount :
          /\ ring.inner[k].color =
                getGradientColor(ring.intensity[k], ring.options.gradientColors)
          /\ ring.inner[k].emissiveIntensity =
                20 * IntensityOne + 150 * ring.intensity[k]

\* C24: in every reachable state the vocal stream handle and analyser are
\* present exactly when the instrumental ones are; a stream that has been
\* started has its analyser, and the two streams were started together, at
\* the same context time and from the same offset
C24_StreamsPaired ==
    /\ am.vocalSource.node = am.instrumentalSource.node
    /\ am.vocalAnalyser = am.instrumentalAnalyser
    /\ am.vocalSource.node = am.vocalAnalyser
    /\ am.vocalSource.started = am.instrumentalSource.started
    /\ am.vocalSource.started =>
          /\ am.vocalAnalyser /\ am.instrumentalAnalyser
          /\ am.vocalSource.when = am.instrumentalSource.when
          /\ am.vocalSource.from = am.instrumentalSource.from

\* a session started by a seek into the second track of the playlist
C24_PairStartedBySeek ==
    /\ last.ev = "seek" /\ last.arg = 1
    /\ am.currentIndex = 1 /\ am.playing
    /\ am.vocalSource.started /\ am.instrumentalSource.started
    /\ am.vocalSource.from = 1 /\ am.instrumentalSource.from = 1
    /\ am.vocalSource.buffer = "b" /\ am.instrumentalSource.buffer = "b"

\* C25: in every reachable state playing = true implies that both stream
\* handles and both analysers are present and the vocal stream has not
\* played to its end
C25_PlayingHasSession ==
    am.playing =>
       /\ am.vocalSource.node /\ am.instrumentalSource.node
       /\ am.vocalAnalyser /\ am.instrumentalAnalyser
       /\ ~am.vocalSource.ended

\* C26: when no asynchronous operation is in flight, playing and paused are
\* not both true
C26_NotPlayingAndPaused ==
    ops = <<>> => ~(am.playing /\ am.paused)

\* C27: when no playNext/playPrevious is in flight and the engine is playing
\* a track of the playlist, the buffers being played are those of the track
\* at currentIndex
C27_PlayingCurrentTrack ==
    (~AdvanceInFlight(World) /\ am.playing /\ am.vocalSource.started
       /\ am.currentIndex >= 0) =>
        /\ am.vocalSource.buffer = getCurrentSong(am)
        /\ am.instrumentalSource.buffer = getCurrentSong(am)

\* C28: a session started by playNext()/playPrevious() starts at offset 0,
\* and a seek made while the decode of the new track is in flight starts no
\* session from the previous track's buffers
C28_AdvanceStartsAtZero ==
    /\ (last.ev = "settled" /\ last.built /\ am.vocalSource.started) =>
          /\ am.offset = 0
          /\ am.vocalSource.from = 0
    /\ (last.ev = "seek" /\ AdvanceInFlight(World)) => ~am.vocalSource.node


\* C29: with the continue-playlist listener registered and decodes that
\* succeed, every natural end of the vocal stream is eventually followed by
\* a state in which the engine plays the next track: the index the listener's
\* playNext() stepped to is the current one and playing is true
C29_EndLeadsToNextTrack ==
    \A j \in 0..(MaxTracks - 1) :
       (last.ev = "ended" /\ last.triggered /\ am.currentIndex = j)
          ~> (am.playing /\ am.currentIndex = j)

=============================================================================
